---- MODULE Spec2Model ----
(***************************************************************************)
(* Model of pydd/utils/dd_client.py: the DD class, an HTTP client of the   *)
(* DeepDetect server.  A DD object holds its connection configuration and *)
(* a return-format setting; every API method builds a parameter map, sends *)
(* one request with the requests library and converts the response.       *)
(*                                                                         *)
(* Callers are threads.  A network operation is split at the only point   *)
(* where the calling thread blocks: the step that builds and sends the    *)
(* request, and the step that receives the answer and runs                *)
(* raise_for_status and __return_data.                                    *)
(***************************************************************************)
EXTENDS Integers, Sequences, FiniteSets, TLC

VARIABLES dd, pc, call, out, lastSet, lastSetter, mine

vars == <<dd, pc, call, out, lastSet, lastSetter, mine>>

(***************************************************************************)
(* Bounds of the model.                                                    *)
(***************************************************************************)
MaxJob == 12
MaxTimeout == 10

(***************************************************************************)
(* Program constants.                                                      *)
(***************************************************************************)
DD_TIMEOUT == 86400
RETURN_JSON == 0
RETURN_TEXT == 1
RETURN_NONE == 2
HTTP == 0
HTTPS == 1

API_METHODS_URL ==
    "0.1" :> [info |-> "/info", services |-> "/services",
              train |-> "/train", predict |-> "/predict"]

(***************************************************************************)
(* Python values returned to the caller.  One record shape for all of     *)
(* them: t is the type, n the number of an int or bool, s the characters  *)
(* of a str.                                                               *)
(***************************************************************************)
PyNone == [t |-> "NoneType", n |-> 0, s |-> <<>>]
PyStr(chars) == [t |-> "str", n |-> 0, s |-> chars]
PyInt(k) == [t |-> "int", n |-> k, s |-> <<>>]
PyBool(b) == [t |-> "bool", n |-> IF b THEN 1 ELSE 0, s |-> <<>>]
PyDict == [t |-> "dict", n |-> 0, s |-> <<>>]
PyList == [t |-> "list", n |-> 0, s |-> <<>>]

(***************************************************************************)
(* str(n) and '%d' % n for an integer: the decimal digits.                *)
(***************************************************************************)
DigitChar(d) ==
    CASE d = 0 -> "0" [] d = 1 -> "1" [] d = 2 -> "2" [] d = 3 -> "3"
      [] d = 4 -> "4" [] d = 5 -> "5" [] d = 6 -> "6" [] d = 7 -> "7"
      [] d = 8 -> "8" [] d = 9 -> "9"

RECURSIVE NatStr(_)
NatStr(n) == IF n < 10 THEN DigitChar(n)
             ELSE NatStr(n \div 10) \o DigitChar(n % 10)

str(n) == IF n < 0 THEN "-" \o NatStr(0 - n) ELSE NatStr(n)

(***************************************************************************)
(* r.json(): the JSON documents the model's server can answer with are    *)
(* the literals, the unsigned integers, strings without escapes and the   *)
(* empty array and object; any other body is not JSON and makes r.json()  *)
(* raise ValueError.  A body is a sequence of characters.                 *)
(***************************************************************************)
DigitChars == {"0", "1", "2", "3", "4", "5", "6", "7", "8", "9"}

DigitVal(c) ==
    CASE c = "0" -> 0 [] c = "1" -> 1 [] c = "2" -> 2 [] c = "3" -> 3
      [] c = "4" -> 4 [] c = "5" -> 5 [] c = "6" -> 6 [] c = "7" -> 7
      [] c = "8" -> 8 [] c = "9" -> 9

IsJsonInt(b) ==
    /\ Len(b) >= 1
    /\ \A k \in 1..Len(b) : b[k] \in DigitChars
    /\ Len(b) > 1 => b[1] # "0"

RECURSIVE JsonIntVal(_)
JsonIntVal(b) ==
    IF b = <<>> THEN 0
    ELSE 10 * JsonIntVal(SubSeq(b, 1, Len(b) - 1)) + DigitVal(b[Len(b)])

IsJsonStr(b) ==
    /\ Len(b) >= 2
    /\ b[1] = "\"" /\ b[Len(b)] = "\""
    /\ \A k \in 2..(Len(b) - 1) : b[k] \notin {"\"", "\\"}

json(b) ==
    CASE b = <<"n", "u", "l", "l">> -> [ok |-> TRUE, val |-> PyNone]
      [] b = <<"t", "r", "u", "e">> -> [ok |-> TRUE, val |-> PyBool(TRUE)]
      [] b = <<"f", "a", "l", "s", "e">> -> [ok |-> TRUE, val |-> PyBool(FALSE)]
      [] b = <<"{", "}">> -> [ok |-> TRUE, val |-> PyDict]
      [] b = <<"[", "]">> -> [ok |-> TRUE, val |-> PyList]
      [] IsJsonInt(b) -> [ok |-> TRUE, val |-> PyInt(JsonIntVal(b))]
      [] IsJsonStr(b) -> [ok |-> TRUE, val |-> PyStr(SubSeq(b, 2, Len(b) - 1))]
      [] OTHER -> [ok |-> FALSE, val |-> PyNone]

(***************************************************************************)
(* r.text: the body as a string.                                           *)
(***************************************************************************)
text(b) == PyStr(b)

(***************************************************************************)
(* The DD object.  alive is false for a slot in which no object has been  *)
(* constructed yet.                                                        *)
(***************************************************************************)
NoUrls == [info |-> "", services |-> "", train |-> "", predict |-> ""]

NoObject ==
    [alive |-> FALSE, apiversion |-> "", urls |-> NoUrls, host |-> "",
     port |-> 0, proto |-> 0, returntype |-> RETURN_JSON, ddurl |-> ""]

\* A constructor that falls back to the table of version 0.1.
DD_initFallback(host, port, proto, apiversion) ==
    [raised |-> FALSE, err |-> "",
     self |-> [alive |-> TRUE, apiversion |-> apiversion,
               urls |-> API_METHODS_URL["0.1"],
               host |-> host, port |-> port, proto |-> proto,
               returntype |-> RETURN_JSON,
               ddurl |-> IF proto = HTTP
                         THEN "http://" \o host \o ":" \o str(port)
                         ELSE "https://" \o host \o ":" \o str(port)]]

\* A constructor that ignores the protocol selector.
DD_initPlain(host, port, proto, apiversion) ==
    IF apiversion \notin DOMAIN API_METHODS_URL
    THEN [raised |-> TRUE, err |-> "KeyError", self |-> NoObject]
    ELSE [raised |-> FALSE, err |-> "",
          self |-> [alive |-> TRUE, apiversion |-> apiversion,
                    urls |-> API_METHODS_URL[apiversion],
                    host |-> host, port |-> port, proto |-> proto,
                    returntype |-> RETURN_JSON,
                    ddurl |-> "http://" \o host \o ":" \o str(port)]]

\* DD.__init__: the lookup in API_METHODS_URL is the second statement and
\* raises KeyError for an unknown version, before anything else is stored.
DD_init(host, port, proto, apiversion) ==
    IF apiversion \notin DOMAIN API_METHODS_URL
    THEN [raised |-> TRUE, err |-> "KeyError", self |-> NoObject]
    ELSE [raised |-> FALSE, err |-> "",
          self |-> [alive |-> TRUE, apiversion |-> apiversion,
                    urls |-> API_METHODS_URL[apiversion],
                    host |-> host, port |-> port, proto |-> proto,
                    returntype |-> RETURN_JSON,
                    ddurl |-> IF proto = HTTP
                              THEN "http://" \o host \o ":" \o str(port)
                              ELSE "https://" \o host \o ":" \o str(port)]]

\* A check that forgets the upper end of the range.
ValidReturnFormatLoose(f) == f >= RETURN_JSON

\* The assertion of set_return_format.
ValidReturnFormat(f) == f = RETURN_JSON \/ f = RETURN_TEXT \/ f = RETURN_NONE

\* A return type kept on the class instead of on the object.
set_return_formatOnClass(objs, i, f) ==
    IF ~ValidReturnFormat(f)
    THEN [raised |-> TRUE, err |-> "AssertionError", objs |-> objs]
    ELSE [raised |-> FALSE, err |-> "",
          objs |-> [j \in DOMAIN objs |-> [objs[j] EXCEPT !.returntype = f]]]

\* DD.set_return_format on object i of objs.
set_return_format(objs, i, f) ==
    IF ~ValidReturnFormat(f)
    THEN [raised |-> TRUE, err |-> "AssertionError", objs |-> objs]
    ELSE [raised |-> FALSE, err |-> "",
          objs |-> [objs EXCEPT ![i].returntype = f]]

\* A conversion with the text and structured branches exchanged.
return_dataSwapped(self, r) ==
    IF self.returntype = RETURN_TEXT
    THEN IF json(r.body).ok
         THEN [raised |-> FALSE, err |-> "", value |-> json(r.body).val]
         ELSE [raised |-> TRUE, err |-> "ValueError", value |-> PyNone]
    ELSE IF self.returntype = RETURN_JSON
    THEN [raised |-> FALSE, err |-> "", value |-> text(r.body)]
    ELSE [raised |-> FALSE, err |-> "", value |-> PyNone]

\* DD.__return_data.
return_data(self, r) ==
    IF self.returntype = RETURN_JSON
    THEN IF json(r.body).ok
         THEN [raised |-> FALSE, err |-> "", value |-> json(r.body).val]
         ELSE [raised |-> TRUE, err |-> "ValueError", value |-> PyNone]
    ELSE IF self.returntype = RETURN_TEXT
    THEN [raised |-> FALSE, err |-> "", value |-> text(r.body)]
    ELSE [raised |-> FALSE, err |-> "", value |-> PyNone]

\* A status check that only rejects the server errors.
raise_for_statusServerOnly(status) == 500 <= status /\ status < 600

\* r.raise_for_status() of the requests library: HTTPError for the client
\* errors (4xx) and the server errors (5xx), nothing for any other status.
raise_for_status(status) ==
    \/ 400 <= status /\ status < 500
    \/ 500 <= status /\ status < 600

(***************************************************************************)
(* The four verbs.  Each builds the url and hands params to the requests  *)
(* library as its params argument, which is the query string; none passes *)
(* data or json, so the request body is empty.  A parameter map is a      *)
(* set: {} for None, {m} for the dict m.                                  *)
(***************************************************************************)
get(self, method, params) ==
    [verb |-> "GET", url |-> self.ddurl \o method, params |-> params,
     data |-> {}, timeout |-> DD_TIMEOUT]

put(self, method, params) ==
    [verb |-> "PUT", url |-> self.ddurl \o method, params |-> params,
     data |-> {}, timeout |-> DD_TIMEOUT]

post(self, method, params) ==
    [verb |-> "POST", url |-> self.ddurl \o method, params |-> params,
     data |-> {}, timeout |-> DD_TIMEOUT]

delete(self, method, params) ==
    [verb |-> "DELETE", url |-> self.ddurl \o method, params |-> params,
     data |-> {}, timeout |-> DD_TIMEOUT]

NoRequest ==
    [verb |-> "", url |-> "", params |-> {}, data |-> {}, timeout |-> 0]

\* What the caller gets: kind is "returned" or "raised" ("" before the
\* first operation of the caller); status and body are the response seen,
\* mode the return type that __return_data read.
NoOutcome ==
    [kind |-> "", err |-> "", code |-> 0, value |-> PyNone,
     status |-> 0, body |-> <<>>, mode |-> -1, answer |-> ""]

\* A verb that turns a failed exchange into a result of None.
FinishSwallow(self, resp) ==
    IF resp.kind = "error" \/ raise_for_status(resp.status)
    THEN [NoOutcome EXCEPT !.kind = "returned", !.answer = resp.kind,
                           !.status = resp.status, !.body = resp.body]
    ELSE LET d == return_data(self, resp) IN
         [NoOutcome EXCEPT !.kind = IF d.raised THEN "raised" ELSE "returned",
                           !.err = d.err, !.value = d.value,
                           !.answer = resp.kind,
                           !.status = resp.status, !.body = resp.body,
                           !.mode = self.returntype]

\* The rest of a verb once the requests call ends: the call itself raises
\* on a transport error, then r.raise_for_status(), then __return_data(r).
Finish(self, resp) ==
    IF resp.kind = "error"
    THEN [NoOutcome EXCEPT !.kind = "raised", !.err = resp.err,
                           !.answer = resp.kind]
    ELSE IF raise_for_status(resp.status)
    THEN [NoOutcome EXCEPT !.kind = "raised", !.err = "HTTPError",
                           !.code = resp.status, !.answer = resp.kind,
                           !.status = resp.status, !.body = resp.body]
    ELSE LET d == return_data(self, resp) IN
         [NoOutcome EXCEPT !.kind = IF d.raised THEN "raised" ELSE "returned",
                           !.err = d.err, !.value = d.value,
                           !.answer = resp.kind,
                           !.status = resp.status, !.body = resp.body,
                           !.mode = self.returntype]

(***************************************************************************)
(* The API methods: each builds its parameter map and delegates to a      *)
(* verb.  The value of an operation here is the request it sends.         *)
(***************************************************************************)
info(self) == get(self, self.urls.info, {})

put_service(self, sname, model, description, mllib, parameters_input, parameters_mllib, parameters_output, mltype) ==
    put(self, self.urls.services \o "/" \o sname,
        {[description |-> description, mllib |-> mllib, type |-> mltype,
          parameters |-> [input |-> parameters_input,
                          mllib |-> parameters_mllib,
                          output |-> parameters_output],
          model |-> model]})

get_service(self, sname) == get(self, self.urls.services \o "/" \o sname, {})

\* A test for None in place of the truth test.
delete_serviceIsNotNone(self, sname, clear) ==
    delete(self, self.urls.services \o "/" \o sname,
           IF clear # {} THEN {[clear |-> c] : c \in clear} ELSE {})

\* clear is {} for None and {c} for the string c; "if clear:" is the truth
\* test of Python, false for None and for the empty string.
delete_service(self, sname, clear) ==
    delete(self, self.urls.services \o "/" \o sname,
           IF clear # {} /\ clear # {""}
           THEN {[clear |-> c] : c \in clear} ELSE {})

post_train(self, sname, data, parameters_input, parameters_mllib, parameters_output, async) ==
    post(self, self.urls.train,
         {[service |-> sname, async |-> async,
           parameters |-> [input |-> parameters_input,
                           mllib |-> parameters_mllib,
                           output |-> parameters_output],
           data |-> data]})

\* A job id passed on as its last digit only.
get_trainLastDigit(self, sname, job, timeout, measure_hist) ==
    get(self, self.urls.train,
        {IF measure_hist
         THEN ("service" :> sname) @@ ("job" :> str(job % 10))
              @@ ("timeout" :> str(timeout))
              @@ ("parameters.output.measure_hist" :> measure_hist)
         ELSE ("service" :> sname) @@ ("job" :> str(job % 10))
              @@ ("timeout" :> str(timeout))})

\* The key of the optional field contains dots, so the map is written as a
\* function of its keys.
get_train(self, sname, job, timeout, measure_hist) ==
    get(self, self.urls.train,
        {IF measure_hist
         THEN ("service" :> sname) @@ ("job" :> str(job))
              @@ ("timeout" :> str(timeout))
              @@ ("parameters.output.measure_hist" :> measure_hist)
         ELSE ("service" :> sname) @@ ("job" :> str(job))
              @@ ("timeout" :> str(timeout))})

delete_train(self, sname, job) ==
    delete(self, self.urls.train, {[service |-> sname, job |-> str(job)]})

post_predict(self, sname, data, parameters_input, parameters_mllib, parameters_output) ==
    post(self, self.urls.predict,
         {[service |-> sname,
           parameters |-> [input |-> parameters_input,
                           mllib |-> parameters_mllib,
                           output |-> parameters_output],
           data |-> data]})

(***************************************************************************)
(* State.                                                                  *)
(*   dd[i]          the object in slot i                                   *)
(*   pc[t]          "idle", or "wait" while t is blocked in requests       *)
(*   call[t]        the operation t called last, its arguments, the       *)
(*                  request it sent and how many requests it sent          *)
(*   out[t]         how that operation ended                               *)
(* History of the return format, kept for the properties:                 *)
(*   lastSet[i]     the format of the last successful set_return_format   *)
(*                  on i, Unset if there was none                          *)
(*   lastSetter[i]  the caller of it                                       *)
(*   mine[t][i]     the format t last set on i                             *)
(***************************************************************************)
Unset == -1
Nobody == "nobody"

NoArgs ==
    [sname |-> "", job |-> 0, timeout |-> 0, measure_hist |-> FALSE,
     clear |-> {}, async |-> FALSE, f |-> Unset, apiversion |-> "",
     host |-> "", port |-> 0, proto |-> 0]

NoCall ==
    [op |-> "", inst |-> 0, args |-> NoArgs, req |-> NoRequest, nreq |-> 0,
     rtAtIssue |-> Unset]

InitOn(T, I) ==
    /\ dd = [i \in I |-> NoObject]
    /\ pc = [t \in T |-> "idle"]
    /\ call = [t \in T |-> NoCall]
    /\ out = [t \in T |-> NoOutcome]
    /\ lastSet = [i \in I |-> Unset]
    /\ lastSetter = [i \in I |-> Nobody]
    /\ mine = [t \in T |-> [i \in I |-> Unset]]

\* dd = DD(host, port, proto, apiversion) into the empty slot i.
New(t, i, host, port, proto, apiversion) ==
    LET c == DD_init(host, port, proto, apiversion) IN
    /\ pc[t] = "idle"
    /\ ~dd[i].alive
    /\ dd' = IF c.raised THEN dd ELSE [dd EXCEPT ![i] = c.self]
    /\ call' = [call EXCEPT ![t] =
                  [NoCall EXCEPT !.op = "__init__", !.inst = i,
                                 !.args = [NoArgs EXCEPT !.host = host,
                                             !.port = port, !.proto = proto,
                                             !.apiversion = apiversion]]]
    /\ out' = [out EXCEPT ![t] =
                 [NoOutcome EXCEPT !.kind = IF c.raised THEN "raised"
                                            ELSE "returned",
                                   !.err = c.err]]
    /\ UNCHANGED <<pc, lastSet, lastSetter, mine>>

\* dd.set_return_format(f)
SetReturnFormat(t, i, f) ==
    LET c == set_return_format(dd, i, f) IN
    /\ pc[t] = "idle"
    /\ dd[i].alive
    /\ dd' = c.objs
    /\ call' = [call EXCEPT ![t] =
                  [NoCall EXCEPT !.op = "set_return_format", !.inst = i,
                                 !.args = [NoArgs EXCEPT !.f = f]]]
    /\ out' = [out EXCEPT ![t] =
                 [NoOutcome EXCEPT !.kind = IF c.raised THEN "raised"
                                            ELSE "returned",
                                   !.err = c.err]]
    /\ lastSet' = IF c.raised THEN lastSet ELSE [lastSet EXCEPT ![i] = f]
    /\ lastSetter' = IF c.raised THEN lastSetter
                     ELSE [lastSetter EXCEPT ![i] = t]
    /\ mine' = IF c.raised THEN mine ELSE [mine EXCEPT ![t][i] = f]
    /\ UNCHANGED pc

\* The first half of a network operation: the request goes out and the
\* caller blocks.
Send(t, i, op, args, req) ==
    /\ pc[t] = "idle"
    /\ dd[i].alive
    /\ pc' = [pc EXCEPT ![t] = "wait"]
    /\ call' = [call EXCEPT ![t] =
                  [op |-> op, inst |-> i, args |-> args, req |-> req,
                   nreq |-> 1, rtAtIssue |-> dd[i].returntype]]
    /\ out' = [out EXCEPT ![t] = NoOutcome]
    /\ UNCHANGED <<dd, lastSet, lastSetter, mine>>

Info(t, i) == Send(t, i, "info", NoArgs, info(dd[i]))

PutService(t, i, sname) ==
    Send(t, i, "put_service", [NoArgs EXCEPT !.sname = sname],
         put_service(dd[i], sname, "model", "description", "caffe",
                     "input", "mllib", "output", "supervised"))

GetService(t, i, sname) ==
    Send(t, i, "get_service", [NoArgs EXCEPT !.sname = sname],
         get_service(dd[i], sname))

DeleteService(t, i, sname, clear) ==
    Send(t, i, "delete_service",
         [NoArgs EXCEPT !.sname = sname, !.clear = clear],
         delete_service(dd[i], sname, clear))

PostTrain(t, i, sname, async) ==
    Send(t, i, "post_train", [NoArgs EXCEPT !.sname = sname, !.async = async],
         post_train(dd[i], sname, "data", "input", "mllib", "output", async))

GetTrain(t, i, sname, job, timeout, measure_hist) ==
    Send(t, i, "get_train",
         [NoArgs EXCEPT !.sname = sname, !.job = job, !.timeout = timeout,
                        !.measure_hist = measure_hist],
         get_train(dd[i], sname, job, timeout, measure_hist))

DeleteTrain(t, i, sname, job) ==
    Send(t, i, "delete_train", [NoArgs EXCEPT !.sname = sname, !.job = job],
         delete_train(dd[i], sname, job))

PostPredict(t, i, sname) ==
    Send(t, i, "post_predict", [NoArgs EXCEPT !.sname = sname],
         post_predict(dd[i], sname, "data", "input", "mllib", "output"))

\* The second half: the requests call ends with the answer resp, and the
\* verb finishes on the object as it is now.
Receive(t, resp) ==
    /\ pc[t] = "wait"
    /\ pc' = [pc EXCEPT ![t] = "idle"]
    /\ out' = [out EXCEPT ![t] = Finish(dd[call[t].inst], resp)]
    /\ UNCHANGED <<dd, call, lastSet, lastSetter, mine>>

(***************************************************************************)
(* Inputs.                                                                 *)
(***************************************************************************)
Hosts == {"localhost", "dd"}
Ports == {8080, 443}
Protos == {HTTP, HTTPS}
ApiVersions == {"0.1", "0.2"}
Formats == {-1, RETURN_JSON, RETURN_TEXT, RETURN_NONE, 3}
Names == {"digits", "mlp"}
Jobs == {1, 3, MaxJob}
Timeouts == {0, MaxTimeout}
Clears == {{}, {""}, {"full"}, {"lib"}, {"mem"}, {"all"}}
Statuses == {200, 204, 304, 404, 500}
Bodies == {<<>>, <<"n", "u", "l", "l">>, <<"1", "2">>, <<"0", "7">>,
           <<"{", "}">>, <<"\"", "k", "\"">>, <<"o", "k">>}

Answer(status, body) ==
    [kind |-> "response", err |-> "", status |-> status, body |-> body]
TransportError(err) ==
    [kind |-> "error", err |-> err, status |-> 0, body |-> <<>>]

Answers ==
    {Answer(s, b) : s \in Statuses, b \in Bodies}
    \cup {TransportError(e) : e \in {"ConnectionError", "Timeout"}}

(***************************************************************************)
(* One caller and one object, all operations and inputs.                  *)
(***************************************************************************)
Init == InitOn({"A"}, {1})

Next ==
    \E t \in {"A"}, i \in {1} :
        \/ \E h \in Hosts, p \in Ports, pr \in Protos, v \in ApiVersions :
              New(t, i, h, p, pr, v)
        \/ \E f \in Formats : SetReturnFormat(t, i, f)
        \/ Info(t, i)
        \/ \E n \in Names : PutService(t, i, n)
        \/ \E n \in Names : GetService(t, i, n)
        \/ \E n \in Names, c \in Clears : DeleteService(t, i, n, c)
        \/ \E n \in Names, a \in BOOLEAN : PostTrain(t, i, n, a)
        \/ \E n \in Names, j \in Jobs, to \in Timeouts, mh \in BOOLEAN :
              GetTrain(t, i, n, j, to, mh)
        \/ \E n \in Names, j \in Jobs : DeleteTrain(t, i, n, j)
        \/ \E n \in Names : PostPredict(t, i, n)
        \/ \E r \in Answers : Receive(t, r)

Spec == Init /\ [][Next]_vars

(***************************************************************************)
(* Two callers and two objects: the callers may share an object or use    *)
(* one each.  The network operations differ only in the request they      *)
(* carry, so info() stands for all of them, and arguments are valid.      *)
(***************************************************************************)
Callers == {"A", "B"}
Objects == {1, 2}
ConcAnswers ==
    {Answer(200, <<"1", "2">>), Answer(500, <<"o", "k">>),
     TransportError("Timeout")}

InitConc == InitOn(Callers, Objects)

NextConc ==
    \E t \in Callers, i \in Objects :
        \/ New(t, i, "localhost", 8080, HTTP, "0.1")
        \/ \E f \in {RETURN_JSON, RETURN_TEXT, RETURN_NONE} :
              SetReturnFormat(t, i, f)
        \/ Info(t, i)
        \/ \E r \in ConcAnswers : Receive(t, r)

SpecConc == InitConc /\ [][NextConc]_vars

(***************************************************************************)
(* Properties.                                                             *)
(***************************************************************************)
Threads == DOMAIN pc

\* t has called a network operation and it has ended.
Ended(t) == pc[t] = "idle" /\ call[t].nreq >= 1

\* The mode in force on object i by the calls of set_return_format so far.
ModeInForce(i) == IF lastSet[i] = Unset THEN RETURN_JSON ELSE lastSet[i]

\* Decimal numerals, written out.
Decimal ==
    (0 :> "0") @@ (1 :> "1") @@ (3 :> "3") @@ (10 :> "10") @@ (11 :> "11")
    @@ (12 :> "12") @@ (13 :> "13") @@ (443 :> "443") @@ (8080 :> "8080")

\* The path of each operation by the endpoint table of version 0.1.
ResourcePath(op, sname) ==
    CASE op = "info" -> "/info"
      [] op \in {"put_service", "get_service", "delete_service"} ->
            "/services/" \o sname
      [] op \in {"post_train", "get_train", "delete_train"} -> "/train"
      [] op = "post_predict" -> "/predict"

\* C1: every successful get, put, post or delete returns its response
\* converted by the mode most recently set on the client (structured when
\* none was set): the parsed JSON value in structured mode, the raw body
\* string in text mode, nothing in none mode.
C1_ConvertsByLastSetMode ==
    \A t \in Threads :
        (Ended(t) /\ out[t].kind = "returned") =>
            LET m == ModeInForce(call[t].inst) IN
            /\ m = RETURN_JSON =>
                  json(out[t].body).ok /\ out[t].value = json(out[t].body).val
            /\ m = RETURN_TEXT => out[t].value = PyStr(out[t].body)
            /\ m = RETURN_NONE => out[t].value = PyNone

\* A request that succeeded in text mode on a body that is also JSON.
C1_Witness ==
    \E t \in Threads :
        /\ Ended(t) /\ out[t].kind = "returned"
        /\ lastSet[call[t].inst] = RETURN_TEXT
        /\ out[t].body = <<"1", "2">>
        /\ out[t].value = PyStr(<<"1", "2">>)

\* C2: set_return_format accepts exactly RETURN_JSON, RETURN_TEXT and
\* RETURN_NONE; any other value raises AssertionError, with no request
\* sent and the setting left as it was.
C2_SetReturnFormatValidates ==
    \A t \in Threads :
        call[t].op = "set_return_format" =>
            LET f == call[t].args.f
                i == call[t].inst IN
            /\ pc[t] = "idle" /\ call[t].nreq = 0 /\ call[t].req = NoRequest
            /\ f \in {RETURN_JSON, RETURN_TEXT, RETURN_NONE} =>
                  out[t].kind = "returned" /\ dd[i].returntype = f
            /\ f \notin {RETURN_JSON, RETURN_TEXT, RETURN_NONE} =>
                  /\ out[t].kind = "raised" /\ out[t].err = "AssertionError"
                  /\ dd[i].returntype = ModeInForce(i)

\* A rejected value after a format had been set.
C2_Witness ==
    \E t \in Threads :
        /\ call[t].op = "set_return_format" /\ call[t].args.f = 3
        /\ out[t].kind = "raised"
        /\ lastSet[call[t].inst] = RETURN_TEXT

\* C3: constructing a client with an api version that has no entry in
\* API_METHODS_URL raises KeyError, creates no client and sends no request.
C3_UnknownVersionRaises ==
    \A t \in Threads :
        (call[t].op = "__init__"
         /\ call[t].args.apiversion \notin DOMAIN API_METHODS_URL) =>
            /\ out[t].kind = "raised" /\ out[t].err = "KeyError"
            /\ ~dd[call[t].inst].alive
            /\ pc[t] = "idle" /\ call[t].nreq = 0 /\ call[t].req = NoRequest

C3_Witness ==
    \E t \in Threads :
        /\ call[t].op = "__init__" /\ call[t].args.apiversion = "0.2"
        /\ out[t].kind = "raised"

C5_PayloadInBody ==
    \A t \in Threads :
        (call[t].nreq >= 1 /\ call[t].req.verb \in {"PUT", "POST"}) =>
            /\ call[t].req.params = {}
            /\ \E m \in call[t].req.data :
                  /\ call[t].op \in {"post_train", "post_predict"} =>
                        m.service = call[t].args.sname
                  /\ call[t].op = "put_service" => m.type = "supervised"

\* C6: delete_service sends DELETE on services/{name}; its parameters hold
\* the field clear, with the given value, exactly when a clear mode (a
\* non-empty value) was given, and there are no parameters at all when
\* none was given (None, or the empty value).
C6_ClearOnlyWhenSupplied ==
    \A t \in Threads :
        (call[t].nreq >= 1 /\ call[t].op = "delete_service") =>
            LET r == call[t].req
                c == call[t].args.clear
                supplied == \E x \in c : x # "" IN
            /\ r.verb = "DELETE"
            /\ r.url = dd[call[t].inst].ddurl \o "/services/"
                       \o call[t].args.sname
            /\ supplied => r.params = {[clear |-> x] : x \in c}
            /\ ~supplied => r.params = {}

C6_Witness ==
    \E t \in Threads :
        /\ call[t].nreq >= 1 /\ call[t].op = "delete_service"
        /\ call[t].args.clear = {"full"}
        /\ call[t].req.params = {[clear |-> "full"]}

\* C7: get_train sends GET on the train path with service = name, job and
\* timeout as decimal strings, and the measure_hist field exactly when it
\* was requested.
C7_GetTrainParams ==
    \A t \in Threads :
        (call[t].nreq >= 1 /\ call[t].op = "get_train") =>
            LET r == call[t].req
                a == call[t].args IN
            /\ r.verb = "GET"
            /\ r.url = dd[call[t].inst].ddurl \o "/train"
            /\ Cardinality(r.params) = 1
            /\ \A m \in r.params :
                  /\ DOMAIN m = {"service", "job", "timeout"}
                       \cup (IF a.measure_hist
                             THEN {"parameters.output.measure_hist"} ELSE {})
                  /\ m["service"] = a.sname
                  /\ m["job"] = Decimal[a.job]
                  /\ m["timeout"] = Decimal[a.timeout]

\* get_train(name, job=12, measure_hist=True)
C7_Witness ==
    \E t \in Threads :
        /\ call[t].nreq >= 1 /\ call[t].op = "get_train"
        /\ call[t].args.job >= 10 /\ call[t].args.measure_hist
        /\ \E m \in call[t].req.params :
              "parameters.output.measure_hist" \in DOMAIN m

\* C8: the connection configuration of a client never changes once it is
\* constructed, and every request goes to scheme://host:port of that
\* configuration (http for the plain protocol, https for the secure one)
\* followed by the path of the operation's resource.
C8_UrlOfRequests ==
    /\ \A t \in Threads :
          call[t].nreq >= 1 =>
              LET o == dd[call[t].inst] IN
              call[t].req.url =
                  (IF o.proto = HTTP THEN "http" ELSE "https") \o "://"
                  \o o.host \o ":" \o Decimal[o.port]
                  \o ResourcePath(call[t].op, call[t].args.sname)
    /\ \A t \in Threads :
          (call[t].op = "__init__" /\ out[t].kind = "returned") =>
              LET o == dd[call[t].inst] IN
              /\ o.alive
              /\ o.host = call[t].args.host /\ o.port = call[t].args.port
              /\ o.proto = call[t].args.proto
              /\ o.apiversion = call[t].args.apiversion

C8_ConfigFrame ==
    \A i \in DOMAIN dd :
        dd[i].alive =>
            /\ dd'[i].alive
            /\ dd'[i].host = dd[i].host /\ dd'[i].port = dd[i].port
            /\ dd'[i].proto = dd[i].proto /\ dd'[i].ddurl = dd[i].ddurl
            /\ dd'[i].apiversion = dd[i].apiversion
            /\ dd'[i].urls = dd[i].urls

C8_ConfigImmutable == []C8_UrlOfRequests /\ [][C8_ConfigFrame]_vars

\* A request of a client of the secure protocol whose format was changed.
C8_Witness ==
    \E t \in Threads :
        /\ call[t].nreq >= 1 /\ call[t].op = "delete_service"
        /\ dd[call[t].inst].proto = HTTPS
        /\ lastSet[call[t].inst] = RETURN_NONE
        /\ call[t].req.url = "https://dd:443/services/mlp"

\* C9: a network operation sends exactly one request and ends either by
\* returning the converted response or by raising; after a transport error
\* or an error status it has raised that error, never returned a value.
C9_OneRequestOneOutcome ==
    \A t \in Threads :
        /\ pc[t] = "wait" => call[t].nreq = 1 /\ out[t].kind = ""
        /\ Ended(t) =>
              /\ call[t].nreq = 1
              /\ out[t].kind \in {"returned", "raised"}
              /\ out[t].answer = "error" =>
                    /\ out[t].kind = "raised"
                    /\ out[t].err \in {"ConnectionError", "Timeout"}
              /\ (out[t].answer = "response" /\ out[t].status \in 400..599) =>
                    out[t].kind = "raised" /\ out[t].err = "HTTPError"
              /\ out[t].kind = "returned" =>
                    /\ out[t].answer = "response"
                    /\ out[t].mode \in {RETURN_JSON, RETURN_TEXT, RETURN_NONE}
              /\ out[t].kind = "raised" => out[t].value = PyNone

\* A timeout in none mode, where a swallowed error would look like success.
C9_Witness ==
    \E t \in Threads :
        /\ Ended(t) /\ out[t].answer = "error" /\ out[t].err = "Timeout"
        /\ out[t].kind = "raised"
        /\ dd[call[t].inst].returntype = RETURN_NONE

\* C10: the return format is read from the object when the response is
\* converted.  A caller gets a result converted under another mode than
\* the one it set on the object (structured if it set none) only if
\* another caller was the last to set the format of that same object;
\* callers of different objects never change each other's conversion.
C10_Step ==
    \A t \in Threads :
        (pc[t] = "wait" /\ pc'[t] = "idle" /\ out'[t].mode # Unset) =>
            LET i == call[t].inst
                own == IF mine[t][i] = Unset THEN RETURN_JSON
                       ELSE mine[t][i] IN
            /\ out'[t].mode = dd[i].returntype
            /\ out'[t].mode # own => lastSetter[i] \notin {t, Nobody}

C10_OnlySharedObjectRaces == [][C10_Step]_vars

\* The race: t set a mode, sent its request while that mode was in force,
\* and got the response converted under the mode another caller set on
\* the same object while the request was in flight.
C10_Witness ==
    \E t \in Threads :
        LET i == call[t].inst IN
        /\ Ended(t) /\ out[t].kind = "returned"
        /\ mine[t][i] = RETURN_JSON /\ call[t].rtAtIssue = RETURN_JSON
        /\ out[t].mode = RETURN_TEXT
        /\ out[t].value = PyStr(<<"1", "2">>)
        /\ lastSetter[i] \notin {t, Nobody}

====
